---- MODULE Spec2Model ----
(***************************************************************************)
(* A model of web/build.py, the template preprocessor of realmview.        *)
(*                                                                         *)
(* Texts are sequences of lexemes.  A lexeme is one character ("{", "}",   *)
(* " ", a letter) or one keyword or name the regular expressions of        *)
(* build.py read as a unit ("PREAMBLE", "ELSE", "IFDEF(A)", a function or   *)
(* file name).  Positions are 1-based; Python's are 0-based.               *)
(***************************************************************************)
EXTENDS Integers, Sequences, FiniteSets, TLC

VARIABLES
    pc,        \* position of the operation under way
    html,      \* the document text being rewritten
    kwargs,    \* the parameter set of the expansion
    src,       \* the input the operation was called with
    out,       \* what the operation returned or raised
    fs,        \* the include tree: path -> "file" or "dir"
    cache,     \* the cache directory: filename -> content of the cached file
    requests,  \* the network requests and cache writes made so far
    constants  \* the default argument of constant(): the table in memory

vars == <<pc, html, kwargs, src, out, fs, cache, requests, constants>>

\* what the text operations neither read nor write
env == <<fs, cache, requests, constants>>

EmptyMap == [k \in {} |-> 0]

EnvUnused ==
    /\ fs = EmptyMap
    /\ cache = EmptyMap
    /\ requests = EmptyMap
    /\ constants = EmptyMap

---------------------------------------------------------------------------
(* Text helpers: what Python's str and re do on the lexeme sequences.      *)

\* \s of the regular expressions and str.strip()
WS == {" ", "\n"}

\* [A-Z_]+ : a lexeme written in capitals only
UPPER == {"A", "B", "ELSE", "PREAMBLE"}

Min(S) == CHOOSE x \in S : \A y \in S : x <= y

\* index of the first non-whitespace lexeme at or after i (Len+1 if none)
SkipWs(s, i) ==
    LET rest == {k \in i..Len(s) : s[k] \notin WS}
    IN IF rest = {} THEN Len(s) + 1 ELSE Min(rest)

\* "{{" at position i
OpenAt(s, i) == i >= 1 /\ i + 1 <= Len(s) /\ s[i] = "{" /\ s[i + 1] = "{"

\* "}}" at position i
CloseAt(s, i) == i >= 1 /\ i + 1 <= Len(s) /\ s[i] = "}" /\ s[i + 1] = "}"

\* str.strip()
strip(s) ==
    LET keep == {k \in 1..Len(s) : s[k] \notin WS}
    IN IF keep = {} THEN <<>>
       ELSE SubSeq(s, Min(keep), CHOOSE x \in keep : \A y \in keep : y <= x)

\* s[a:b] with Python's clamping, on 1-based inclusive bounds
Slice(s, a, b) == IF a > b THEN <<>> ELSE SubSeq(s, a, b)

\* str.find: first position where pat occurs in s, 0 if none
Find(s, pat) ==
    LET hits == {k \in 1..(Len(s) - Len(pat) + 1) :
                    SubSeq(s, k, k + Len(pat) - 1) = pat}
    IN IF hits = {} THEN 0 ELSE Min(hits)

\* str.replace(old, new, 1)
ReplaceFirst(s, old, new) ==
    LET k == Find(s, old)
    IN IF k = 0 THEN s
       ELSE Slice(s, 1, k - 1) \o new \o Slice(s, k + Len(old), Len(s))

\* str.replace(old, new): every non-overlapping occurrence, left to right
RECURSIVE ReplaceAll(_, _, _)
ReplaceAll(s, old, new) ==
    LET k == Find(s, old)
    IN IF old = <<>> \/ k = 0 THEN s
       ELSE Slice(s, 1, k - 1) \o new
            \o ReplaceAll(Slice(s, k + Len(old), Len(s)), old, new)

---------------------------------------------------------------------------
(* The block reader.                                                       *)

NoError == "none"
UnterminatedBlock == "ValueError: Unterminated block."
MissingIdentifier == "ValueError: Missing indentifier"

\* the while loop of read_block: one lexeme per iteration
RECURSIVE read_block_loop(_, _, _, _)
read_block_loop(s, i, n_braces, started) ==
    IF i <= Len(s) /\ (n_braces # 0 \/ ~started)
    THEN LET n == IF s[i] = "{" THEN n_braces + 1
                  ELSE IF s[i] = "}" THEN n_braces - 1
                  ELSE n_braces
         IN read_block_loop(s, i + 1, n, started \/ n = 2)
    ELSE [i |-> i, n_braces |-> n_braces, started |-> started]

\* a read_block that gives up at the first "}}" instead of counting depth
read_block_first_close(start, s) ==
    LET ends == {k \in start..Len(s) : CloseAt(s, k)}
    IN IF ends = {} THEN [err |-> UnterminatedBlock, block |-> <<>>]
       ELSE [err |-> NoError, block |-> SubSeq(s, start, Min(ends) + 1)]

read_block(start, s) ==
    LET r == read_block_loop(s, start, 0, FALSE)
    IN IF r.n_braces # 0
       THEN [err |-> UnterminatedBlock, block |-> <<>>]
       ELSE [err |-> NoError, block |-> Slice(s, start, r.i - 1)]

\* re.search(re.escape(identifier) + r"\s*{{", html): start of the match, or 0
SearchIdentifier(identifier, s) ==
    LET hits == {k \in 1..Len(s) : s[k] = identifier /\ OpenAt(s, SkipWs(s, k + 1))}
    IN IF hits = {} THEN 0 ELSE Min(hits)

read_identifier_block(identifier, s) ==
    LET m == SearchIdentifier(identifier, s)
    IN IF m # 0 THEN read_block(m, s)
       ELSE [err |-> MissingIdentifier, block |-> <<>>]

\* re.sub(r"^[\s\S]*?{{", "", block)[:-2]
block_contents(block) ==
    LET opens == {k \in 1..Len(block) : OpenAt(block, k)}
        rest == IF opens = {} THEN block
                ELSE Slice(block, Min(opens) + 2, Len(block))
    IN Slice(rest, 1, Len(rest) - 2)

---------------------------------------------------------------------------
(* The conditional resolver.                                               *)

\* (?P<ident>(?P<cond>IFN?DEF)\((?P<arg>[A-Z_]+)\)) : the lexemes it matches
IDENTS == {"IFDEF(A)", "IFNDEF(A)", "IFDEF(B)", "IFNDEF(B)"}

\* m.group("cond")
Cond(ident) == IF ident \in {"IFDEF(A)", "IFDEF(B)"} THEN "IFDEF" ELSE "IFNDEF"

\* m.group("arg"), as a key of the parameter set
Arg(ident) == IF ident \in {"IFDEF(A)", "IFNDEF(A)"} THEN <<"A">> ELSE <<"B">>

\* BLOCK_REGEX = {{[\s\S]*?}} matches at o: "{{" there and a "}}" later
BlockRegexEnds(s, o) ==
    IF OpenAt(s, o) THEN {q + 2 : q \in {k \in (o + 2)..Len(s) : CloseAt(s, k)}}
    ELSE {}

\* \s*ELSE\s*{{ at i: the position of its "{{", or 0
ElseOpen(s, i) ==
    LET e == SkipWs(s, i)
    IN IF e <= Len(s) /\ s[e] = "ELSE" /\ OpenAt(s, SkipWs(s, e + 1))
       THEN SkipWs(s, e + 1) ELSE 0

\* IFDEF_REGEX matches at p
IfdefRegexAt(s, p) ==
    s[p] \in IDENTS /\ BlockRegexEnds(s, SkipWs(s, p + 1)) # {}

\* IFDEF_ELSE_REGEX matches at p
IfdefElseRegexAt(s, p) ==
    /\ s[p] \in IDENTS
    /\ \E q \in BlockRegexEnds(s, SkipWs(s, p + 1)) :
          ElseOpen(s, q) # 0 /\ BlockRegexEnds(s, ElseOpen(s, q)) # {}

IFDEF_REGEX == "IFDEF_REGEX"
IFDEF_ELSE_REGEX == "IFDEF_ELSE_REGEX"

\* re.search(regex, html): start of the leftmost match, or 0
SearchIfdef(regex, s) ==
    LET hits == {p \in 1..Len(s) :
                    IF regex = IFDEF_ELSE_REGEX THEN IfdefElseRegexAt(s, p)
                    ELSE IfdefRegexAt(s, p)}
    IN IF hits = {} THEN 0 ELSE Min(hits)

read_ifdef_block(start, s) ==
    LET ib == read_block(start, s)
        i == start + Len(ib.block)
        eb == IF ib.err = NoError /\ ElseOpen(s, i) # 0 THEN read_block(i, s)
              ELSE [err |-> NoError, block |-> <<>>]
    IN IF ib.err # NoError THEN [err |-> ib.err, if_block |-> <<>>, else_block |-> <<>>]
       ELSE IF eb.err # NoError
       THEN [err |-> eb.err, if_block |-> <<>>, else_block |-> <<>>]
       ELSE [err |-> NoError, if_block |-> ib.block, else_block |-> eb.block]

\* a selection that asks for a non-empty value instead of a key
if_branch_selected_truthy(cond, kwarg, kw) ==
    \/ cond = "IFDEF" /\ kwarg \in DOMAIN kw /\ kw[kwarg] # <<>>
    \/ cond = "IFNDEF" /\ ~(kwarg \in DOMAIN kw /\ kw[kwarg] # <<>>)

\* the condition of the if statement in _process_ifdefs
if_branch_selected(cond, kwarg, kw) ==
    \/ cond = "IFDEF" /\ kwarg \in DOMAIN kw
    \/ cond = "IFNDEF" /\ kwarg \notin DOMAIN kw

\* _process_ifdefs: the while loop, one conditional form per iteration
RECURSIVE process_ifdefs_regex(_, _, _)
process_ifdefs_regex(regex, s, kw) ==
    LET m == SearchIfdef(regex, s)
    IN IF m = 0 THEN [err |-> NoError, html |-> s]
       ELSE LET r == read_ifdef_block(m, s)
                repl == IF if_branch_selected(Cond(s[m]), Arg(s[m]), kw)
                        THEN strip(block_contents(r.if_block))
                        ELSE strip(block_contents(r.else_block))
            IN IF r.err # NoError THEN [err |-> r.err, html |-> s]
               ELSE process_ifdefs_regex(
                        regex, ReplaceFirst(s, r.if_block \o r.else_block, repl), kw)

process_ifdefs(s, kw) ==
    LET first == process_ifdefs_regex(IFDEF_ELSE_REGEX, s, kw)
    IN IF first.err # NoError THEN first
       ELSE process_ifdefs_regex(IFDEF_REGEX, first.html, kw)

---------------------------------------------------------------------------
(* Texts of bounded length over a set of lexemes.                          *)

TextsOver(alphabet, maxLen) == UNION {[1..n -> alphabet] : n \in 0..maxLen}

\* the empty parameter set
EmptyKwargs == [k \in {} |-> <<>>]

NoResult == [err |-> "pending"]

---------------------------------------------------------------------------
(***************************************************************************)
(* SpecBlock: read_identifier_block and block_contents on the identifier   *)
(* followed by every text of braces and blanks up to MaxBlockLen lexemes,  *)
(* after nothing, a blank or a stray brace.                                *)
(***************************************************************************)

MaxBlockLen == 8

BlockAlphabet == {"{", "}", " "}

BlockPrefixes == {<<>>, <<" ">>, <<"}">>}

InitBlock ==
    /\ pc = "read_identifier_block"
    /\ \E pre \in BlockPrefixes, body \in TextsOver(BlockAlphabet, MaxBlockLen) :
          html = pre \o <<"PREAMBLE">> \o body
    /\ src = html
    /\ kwargs = EmptyKwargs
    /\ out = NoResult
    /\ EnvUnused

\* block = read_identifier_block("PREAMBLE", html); block_contents(block)
ReadIdentifierBlock ==
    /\ pc = "read_identifier_block"
    /\ LET r == read_identifier_block("PREAMBLE", html)
       IN out' = [err |-> r.err, block |-> r.block,
                  contents |-> IF r.err = NoError THEN block_contents(r.block)
                               ELSE <<>>]
    /\ pc' = "done"
    /\ UNCHANGED <<html, kwargs, src, env>>

NextBlock == ReadIdentifierBlock

SpecBlock == InitBlock /\ [][NextBlock]_vars

\* number of "{" minus number of "}" in s[a..k]
BraceDepth(s, a, k) ==
    Cardinality({j \in a..k : s[j] = "{"}) - Cardinality({j \in a..k : s[j] = "}"})

\* the block was read: where it starts, where its "{{" is, where it ends
BlockRead == pc = "done" /\ out.err = NoError
BlockStart == SearchIdentifier("PREAMBLE", src)
BlockOpen == SkipWs(src, BlockStart + 1)
BlockEnd == BlockStart + Len(out.block) - 1

\* the parts of C2 that do not speak of the closing delimiter
BlockIsNested ==
    /\ out.block = Slice(src, BlockStart, BlockEnd)
    /\ OpenAt(src, BlockOpen)
    /\ BraceDepth(src, BlockStart, BlockEnd) = 0
    /\ BlockEnd = Min({k \in (BlockOpen + 1)..Len(src) :
                          BraceDepth(src, BlockStart, k) = 0})
    /\ \A k \in (BlockOpen + 2)..BlockEnd :
          OpenAt(src, k) => \E q \in (k + 2)..BlockEnd : BraceDepth(src, k, q) = 0

\* C2 as stated: every span read_block returns begins at start, was opened by
\* "{{", has as many "{" as "}", ends where the depth is first back to 0, and
\* block_contents is the text between the outermost "{{" and its matching "}}".
C2_AsStated ==
    BlockRead =>
        /\ BlockIsNested
        /\ CloseAt(src, BlockEnd - 1)
        /\ out.contents = Slice(src, BlockOpen + 2, BlockEnd - 2)

\* C2 amended: the same, but block_contents is the span without its prefix up
\* to the first "{{" and without its last two lexemes, which is the text between
\* the outermost "{{" and its matching "}}" only when the span ends in "}}"
\* (depth counting also closes a block with two separate "}").
C2_NestingCorrect ==
    BlockRead =>
        /\ BlockIsNested
        /\ out.contents = Slice(src, BlockOpen + 2, BlockEnd - 2)
        /\ (CloseAt(src, BlockEnd - 1) =>
               out.block = Slice(src, BlockStart, BlockOpen + 1) \o out.contents
                           \o <<"}", "}">>)

\* a block with a nested "{{ }}" pair was read whole
C2_Witness ==
    /\ BlockRead
    /\ CloseAt(src, BlockEnd - 1)
    /\ \E k \in (BlockOpen + 2)..BlockEnd : OpenAt(src, k)

---------------------------------------------------------------------------
(* Documents with conditional forms, written as trees and rendered to text. *)
(* An item is a piece of text or a form IDENT ws {{ a }} [ws ELSE ws {{ b }}] *)
(* whose bodies a and b are item sequences again.                           *)

Txt(s) ==
    [t |-> "txt", s |-> s, ident |-> "", ws |-> <<>>, a |-> <<>>,
     hasElse |-> FALSE, b |-> <<>>]

Form(ident, ws, a, hasElse, b) ==
    [t |-> "form", s |-> <<>>, ident |-> ident, ws |-> ws, a |-> a,
     hasElse |-> hasElse, b |-> b]

RECURSIVE Render(_)
Render(items) ==
    IF items = <<>> THEN <<>>
    ELSE LET it == Head(items)
         IN (IF it.t = "txt" THEN it.s
             ELSE <<it.ident>> \o it.ws \o <<"{", "{">> \o Render(it.a)
                  \o <<"}", "}">>
                  \o (IF it.hasElse
                      THEN it.ws \o <<"ELSE">> \o it.ws \o <<"{", "{">>
                           \o Render(it.b) \o <<"}", "}">>
                      ELSE <<>>))
            \o Render(Tail(items))

\* every prefix of s has at least as many "{" as "}", and s as many of both
WellNested(s) ==
    /\ \A k \in 1..Len(s) : BraceDepth(s, 1, k) >= 0
    /\ BraceDepth(s, 1, Len(s)) = 0

MaxBodyLen == 2

\* a placeholder, for bodies that hold macro text
PlaceholderA == <<"{", "{", " ", "A", " ", "}", "}">>

\* the texts of the innermost bodies
LeafTexts ==
    {s \in TextsOver({"x", " ", "{", "}"}, MaxBodyLen) : WellNested(s)}
    \cup {PlaceholderA, <<"\n", "x", " ", "y", "\n">>}

ElseTexts == {<<"y">>, <<" ", "y">>}

Spaces == {<<>>, <<" ">>}

\* forms whose bodies are plain text
LeafForms ==
    {Form(id, ws, <<Txt(a)>>, FALSE, <<>>) :
        id \in IDENTS, ws \in Spaces, a \in LeafTexts}
    \cup {Form(id, ws, <<Txt(a)>>, TRUE, <<Txt(b)>>) :
            id \in IDENTS, ws \in Spaces, a \in LeafTexts, b \in ElseTexts}

\* the forms that are nested into other forms and put side by side
SmallForms ==
    {Form(id, <<>>, <<Txt(a)>>, FALSE, <<>>) : id \in IDENTS, a \in {<<>>, <<"x">>}}
    \cup {Form(id, <<>>, <<Txt(<<"x">>)>>, TRUE, <<Txt(<<"y">>)>>) : id \in IDENTS}

\* forms with a form inside the if-block or inside the else-block
NestedForms ==
    {Form(id, <<>>, <<Txt(pre), f, Txt(post)>>, FALSE, <<>>) :
        id \in IDENTS, pre \in Spaces, post \in Spaces, f \in SmallForms}
    \cup {Form(id, <<>>, <<Txt(<<"x">>)>>, TRUE, <<Txt(pre), f>>) :
            id \in IDENTS, pre \in Spaces, f \in SmallForms}

IfdefDocs ==
    {<<Txt(p), f, Txt(q)>> : p \in {<<>>, <<"x">>}, q \in {<<>>, <<" ", "x">>},
                             f \in LeafForms \cup NestedForms}
    \cup {<<f, Txt(m), g>> : f \in SmallForms, g \in SmallForms, m \in Spaces}

\* parameter sets: A absent, empty or "v"; B absent or "v"
KwargSets ==
    {EmptyKwargs}
    \cup {[k \in {<<"A">>} |-> v] : v \in {<<>>, <<"v">>}}
    \cup {[k \in {<<"B">>} |-> <<"v">>]}
    \cup {[k \in {<<"A">>, <<"B">>} |-> IF k = <<"A">> THEN v ELSE <<"v">>] :
            v \in {<<>>, <<"v">>}}

---------------------------------------------------------------------------
(* SpecIfdef: process_ifdefs on the rendered documents.                     *)

InitIfdef ==
    /\ pc = "process_ifdefs"
    /\ src \in IfdefDocs
    /\ html = Render(src)
    /\ kwargs \in KwargSets
    /\ out = NoResult
    /\ EnvUnused

ProcessIfdefs ==
    /\ pc = "process_ifdefs"
    /\ LET r == process_ifdefs(html, kwargs)
       IN /\ out' = [err |-> r.err]
          /\ html' = r.html
    /\ pc' = "done"
    /\ UNCHANGED <<kwargs, src, env>>

NextIfdef == ProcessIfdefs

SpecIfdef == InitIfdef /\ [][NextIfdef]_vars

lstrip(s) == Slice(s, SkipWs(s, 1), Len(s))

rstrip(s) == IF strip(s) = <<>> THEN <<>> ELSE Slice(s, 1, Len(s) - (Len(lstrip(s)) - Len(strip(s))))

\* the items of a body without the whitespace around the body
StripItems(items) ==
    IF Len(items) = 0 THEN <<>>
    ELSE IF Len(items) = 1 THEN <<Txt(strip(items[1].s))>>
    ELSE [k \in 1..Len(items) |->
            IF items[k].t # "txt" THEN items[k]
            ELSE IF k = 1 THEN Txt(lstrip(items[k].s))
            ELSE IF k = Len(items) THEN Txt(rstrip(items[k].s))
            ELSE items[k]]

\* what a document stands for: each form replaced by its selected body,
\* stripped, and the forms of that body in turn
RECURSIVE Expected(_, _)
Expected(items, kw) ==
    IF items = <<>> THEN <<>>
    ELSE LET it == Head(items)
             defined == \E k \in DOMAIN kw : k = Arg(it.ident)
             selected == IF (Cond(it.ident) = "IFDEF") = defined THEN it.a
                         ELSE IF it.hasElse THEN it.b ELSE <<>>
         IN (IF it.t = "txt" THEN it.s ELSE Expected(StripItems(selected), kw))
            \o Expected(Tail(items), kw)

\* C1: process_ifdefs replaces every form IFDEF(NAME){{A}}[ELSE{{B}}] by A
\* stripped when NAME is a key of the parameter set (whatever its value) and
\* by B stripped (or nothing) otherwise, IFNDEF the other way round, and
\* leaves no IFDEF/IFNDEF form in the text.
C1_SelectsByKey ==
    pc = "done" =>
        /\ out.err = NoError
        /\ html = Expected(src, kwargs)
        /\ \A k \in 1..Len(html) : html[k] \notin IDENTS

\* IFDEF(A) with A defined as the empty string took its if-block, and a form
\* nested in a selected else-block was resolved after it
C1_Witness ==
    /\ pc = "done"
    /\ <<"A">> \in DOMAIN kwargs
    /\ kwargs[<<"A">>] = <<>>
    /\ \E k \in 1..Len(src) :
          /\ src[k].ident = "IFDEF(A)"
          /\ src[k].hasElse
          /\ src[k].a = <<Txt(<<" ", "x">>)>>
          /\ html = src[1].s \o <<"x">> \o src[3].s
          /\ Len(src[3].s) > 0

---------------------------------------------------------------------------
(* The preamble evaluator.                                                 *)

\* the statements a preamble script is written with; "x" is a name that is
\* not defined when the script runs
SetA == "kwargs['A']='p'"
SetAEmpty == "kwargs['A']=''"
SetB == "kwargs['B']='q'"
SetID == "kwargs['A']=unique_string()"
STMTS == {SetA, SetAEmpty, SetB, SetID}

\* the value of a unique_string() call, before it is told apart from the values
\* of the other calls of the run
FreshId == "uuid4().hex[:8]"

StmtKey(l) == IF l = SetB THEN <<"B">> ELSE <<"A">>

StmtVal(l) ==
    IF l = SetA THEN <<"p">> ELSE IF l = SetB THEN <<"q">>
    ELSE IF l = SetID THEN <<FreshId>> ELSE <<>>

\* kwargs[key] = val
Put(kw, key, val) == [k \in DOMAIN kw \cup {key} |-> IF k = key THEN val ELSE kw[k]]

\* the lines of a script: the pieces between its "\n"
RECURSIVE Lines(_)
Lines(script) ==
    LET nl == {k \in 1..Len(script) : script[k] = "\n"}
    IN IF nl = {} THEN <<script>>
       ELSE <<Slice(script, 1, Min(nl) - 1)>> \o Lines(Slice(script, Min(nl) + 1, Len(script)))

\* what compile() says of one line: at most one statement, not indented
LineError(line) ==
    LET code == {k \in 1..Len(line) : line[k] # " "}
    IN IF code = {} THEN NoError
       ELSE IF Min(code) > 1 THEN "IndentationError"
       ELSE IF Cardinality(code) > 1 THEN "SyntaxError"
       ELSE NoError

RECURSIVE run_statements(_, _)
run_statements(script, kw) ==
    IF script = <<>> THEN [err |-> NoError, kwargs |-> kw]
    ELSE IF Head(script) \in STMTS
    THEN run_statements(Tail(script), Put(kw, StmtKey(Head(script)), StmtVal(Head(script))))
    ELSE IF Head(script) = "x" THEN [err |-> "NameError", kwargs |-> kw]
    ELSE run_statements(Tail(script), kw)

\* an exec that runs the script on a copy of the parameter set
exec_on_copy(script, kw) == [err |-> NoError, kwargs |-> kw]

\* exec(preamble): compile the script, then run its statements on kwargs
exec(script, kw) ==
    LET errors == {LineError(Lines(script)[k]) : k \in 1..Len(Lines(script))} \ {NoError}
    IN IF errors # {} THEN [err |-> CHOOSE e \in errors : TRUE, kwargs |-> kw]
       ELSE run_statements(script, kw)

\* process_preamble: every ValueError of read_identifier_block is caught
process_preamble(s, kw) ==
    LET r == read_identifier_block("PREAMBLE", s)
        e == exec(block_contents(r.block), kw)
    IN IF r.err # NoError
       THEN [err |-> NoError, html |-> s, kwargs |-> kw, caught |-> r.err]
       ELSE IF e.err # NoError
       THEN [err |-> e.err, html |-> s, kwargs |-> e.kwargs, caught |-> NoError]
       ELSE [err |-> NoError, html |-> strip(ReplaceAll(s, r.block, <<>>)),
             kwargs |-> e.kwargs, caught |-> NoError]

---------------------------------------------------------------------------
(* Placeholder replacement in process_kwarg_html.                          *)

\* KWARG_REGEX matches at p: the position after the match and the key, or 0
KwargMatch(s, p) ==
    LET i == SkipWs(s, p + 2)
        stop == {k \in i..Len(s) : s[k] \notin UPPER}
        j == IF stop = {} THEN Len(s) + 1 ELSE Min(stop)
        c == SkipWs(s, j)
    IN IF OpenAt(s, p) /\ j > i /\ CloseAt(s, c)
       THEN [end |-> c + 2, k |-> Slice(s, i, j - 1)]
       ELSE [end |-> 0, k |-> <<>>]

\* re.finditer(KWARG_REGEX, html): the matches from position p on
RECURSIVE kwarg_finditer(_, _)
kwarg_finditer(s, p) ==
    LET hits == {q \in p..Len(s) : KwargMatch(s, q).end # 0}
        q == Min(hits)
    IN IF hits = {} THEN <<>>
       ELSE <<[start |-> q, text |-> Slice(s, q, KwargMatch(s, q).end - 1),
               k |-> KwargMatch(s, q).k]>>
            \o kwarg_finditer(s, KwargMatch(s, q).end)

\* a lookup that leaves the placeholder of a missing key alone
kwargs_get_or_keep(kw, m) == IF m.k \in DOMAIN kw THEN kw[m.k] ELSE m.text

\* kwargs.get(kwarg.group("k"), "")
kwargs_get(kw, m) == IF m.k \in DOMAIN kw THEN kw[m.k] ELSE <<>>

\* the for loop of process_kwarg_html over the matches found before it began
RECURSIVE replace_kwargs(_, _, _)
replace_kwargs(s, matches, kw) ==
    IF matches = <<>> THEN s
    ELSE replace_kwargs(ReplaceAll(s, Head(matches).text, kwargs_get(kw, Head(matches))),
                        Tail(matches), kw)

---------------------------------------------------------------------------
(***************************************************************************)
(* SpecKwarg: one parameterized-include expansion, kwarg_substitution       *)
(* calling process_kwarg_html on a body: process_preamble, process_ifdefs,  *)
(* the placeholder loop, and the text handed on to process_html.            *)
(* A body is lead, an optional PREAMBLE block, and items.                   *)
(***************************************************************************)

MaxScriptLen == 2

MaxChunks == 3

PlaceholderB == <<"{", "{", "B", "}", "}">>

Scripts ==
    TextsOver({"\n", " ", SetA, SetB, "x"}, MaxScriptLen)
    \cup {<<"\n", SetAEmpty, "\n", SetB, "\n">>}

\* kind "none": no block; "closed": PREAMBLE {{script}}; "open": the block
\* lacks its last "}"
RenderPreamble(pre) ==
    IF pre.kind = "none" THEN <<>>
    ELSE <<"PREAMBLE", " ", "{", "{">> \o pre.script
         \o (IF pre.kind = "closed" THEN <<"}", "}", "\n">> ELSE <<"}", "\n">>)

BodyText(body) == body.lead \o RenderPreamble(body.pre) \o Render(body.items)

NoPreamble == [kind |-> "none", script |-> <<>>]

\* bodies that use the keys a preamble may set
PreambleItems ==
    {<<Form("IFDEF(A)", <<" ">>, <<Txt(PlaceholderA)>>, TRUE, <<Txt(<<"y">>)>>)>>,
     <<Form("IFNDEF(B)", <<>>, <<Txt(<<"x">>)>>, FALSE, <<>>), Txt(<<"-">> \o PlaceholderB)>>,
     <<Form("IFDEF(B)", <<>>,
            <<Txt(<<" ">>), Form("IFNDEF(A)", <<>>, <<Txt(<<"x">>)>>, TRUE,
                                 <<Txt(PlaceholderA)>>)>>,
            FALSE, <<>>)>>,
     <<Txt(<<"x">>)>>}

\* bodies made of text, placeholders and stray delimiters
Chunks == {<<"x">>, PlaceholderA, PlaceholderB, <<"{", "{">>, <<"}", "}">>}

RECURSIVE ChunkItems(_)
ChunkItems(n) ==
    IF n = 0 THEN {<<>>}
    ELSE LET shorter == ChunkItems(n - 1)
         IN shorter \cup {Append(items, Txt(c)) : items \in shorter, c \in Chunks}

\* bodies with a conditional whose block never closes
OpenIfdefItems ==
    {<<Txt(<<"IFDEF(A)", "{", "{", "{", "x", "}", "}">>)>>,
     <<Txt(<<"x", "IFNDEF(B)", "{", "{", "x", "}", "}", "ELSE", "{", "{", "{", "}", "}">>)>>}

\* parameter sets whose values are text, a key name or a placeholder
ValueKwargSets ==
    {EmptyKwargs, [k \in {<<"B">>} |-> <<"w">>]}
    \cup {[k \in {<<"A">>} |-> v] : v \in {<<>>, <<"v">>, <<"B">>, PlaceholderB}}
    \cup {[k \in {<<"A">>, <<"B">>} |-> IF k = <<"A">> THEN v ELSE <<"w">>] :
            v \in {<<>>, <<"v">>, <<"B">>, PlaceholderB}}

SmallKwargSets == {EmptyKwargs, [k \in {<<"A">>} |-> <<"v">>], [k \in {<<"B">>} |-> <<"v">>]}

KwargBodies ==
    {[lead |-> l, pre |-> [kind |-> kd, script |-> sc], items |-> it, kwargs |-> kw] :
        l \in {<<>>, <<"x">>}, kd \in {"closed", "open"}, sc \in Scripts,
        it \in PreambleItems, kw \in SmallKwargSets}
    \cup {[lead |-> <<>>, pre |-> NoPreamble, items |-> it, kwargs |-> kw] :
            it \in PreambleItems \cup ChunkItems(MaxChunks), kw \in ValueKwargSets}
    \cup {[lead |-> <<>>, pre |-> pr, items |-> it, kwargs |-> kw] :
            pr \in {NoPreamble, [kind |-> "closed", script |-> <<SetA>>]},
            it \in OpenIfdefItems, kw \in SmallKwargSets}

ExitDataErr == "exit(os.EX_DATAERR)"

InitKwarg ==
    /\ pc = "process_preamble"
    /\ src \in KwargBodies
    /\ html = BodyText(src)
    /\ kwargs = src.kwargs
    /\ out = [err |-> NoError, caught |-> NoError, scanned |-> <<>>]
    /\ EnvUnused

\* html = process_preamble(html, kwargs); an error of the script is not caught
KwargPreamble ==
    /\ pc = "process_preamble"
    /\ LET r == process_preamble(html, kwargs)
       IN /\ html' = r.html
          /\ kwargs' = r.kwargs
          /\ out' = [out EXCEPT !.err = r.err, !.caught = r.caught]
          /\ pc' = IF r.err = NoError THEN "process_ifdefs" ELSE "aborted"
    /\ UNCHANGED <<src, env>>

\* html = process_ifdefs(html, kwargs); kwarg_substitution turns its ValueError
\* into exit(os.EX_DATAERR)
KwargIfdefs ==
    /\ pc = "process_ifdefs"
    /\ LET r == process_ifdefs(html, kwargs)
       IN /\ html' = r.html
          /\ out' = [out EXCEPT !.err = IF r.err = NoError THEN NoError ELSE ExitDataErr,
                                !.caught = IF r.err = NoError THEN out.caught ELSE r.err]
          /\ pc' = IF r.err = NoError THEN "placeholders" ELSE "aborted"
    /\ UNCHANGED <<kwargs, src, env>>

\* the for loop over re.finditer(KWARG_REGEX, html); then process_html(html)
KwargPlaceholders ==
    /\ pc = "placeholders"
    /\ html' = replace_kwargs(html, kwarg_finditer(html, 1), kwargs)
    /\ out' = [out EXCEPT !.scanned = html]
    /\ pc' = "process_html"
    /\ UNCHANGED <<kwargs, src, env>>

NextKwarg == KwargPreamble \/ KwargIfdefs \/ KwargPlaceholders

SpecKwarg == InitKwarg /\ [][NextKwarg]_vars

\* the text with every placeholder replaced, at its place, by its key's value
\* or by nothing
RECURSIVE SimSubst(_, _)
SimSubst(s, kw) ==
    LET ms == kwarg_finditer(s, 1)
        m == Head(ms)
    IN IF ms = <<>> THEN s
       ELSE Slice(s, 1, m.start - 1)
            \o (IF m.k \in DOMAIN kw THEN kw[m.k] ELSE <<>>)
            \o SimSubst(Slice(s, m.start + Len(m.text), Len(s)), kw)

HasBrace(s) == \E k \in 1..Len(s) : s[k] \in {"{", "}"}

\* the text handed on to process_html
HandedOn == pc = "process_html"

\* C3 as stated: after the preamble and the conditionals, every placeholder is
\* replaced by its key's value or by nothing, and no placeholder is left in
\* the text handed on to process_html.
C3_AsStated ==
    HandedOn =>
        /\ html = SimSubst(out.scanned, kwargs)
        /\ kwarg_finditer(html, 1) = <<>>

\* values without braces, and no braces in the text but those of placeholders
PlainPlaceholders ==
    /\ \A k \in DOMAIN kwargs : ~HasBrace(kwargs[k])
    /\ ~HasBrace(SimSubst(out.scanned, EmptyKwargs))

\* C3 amended: the same when the values hold no braces and the text has no
\* braces besides those of its placeholders; replaced text is not scanned
\* again, so a value "{{B}}" or the text "{{{{ A }}}}" with A = B leaves a
\* placeholder behind.
C3_PlaceholdersReplaced ==
    HandedOn /\ PlainPlaceholders =>
        /\ html = SimSubst(out.scanned, kwargs)
        /\ kwarg_finditer(html, 1) = <<>>

\* {{ A }}x{{B}} with only A given became vx
C3_Witness ==
    /\ HandedOn
    /\ PlainPlaceholders
    /\ out.scanned = PlaceholderA \o <<"x">> \o PlaceholderB
    /\ DOMAIN kwargs = {<<"A">>}
    /\ html = kwargs[<<"A">>] \o <<"x">>
    /\ html # <<"x">>

---------------------------------------------------------------------------
(* The order of the stages of one expansion.                               *)

AfterPreamble == pc \in {"process_ifdefs", "placeholders", "process_html"}

\* the last statement of the script that sets key k, 0 if none
LastSet(script, k) ==
    LET at == {i \in 1..Len(script) : script[i] \in STMTS /\ StmtKey(script[i]) = k}
    IN IF at = {} THEN 0 ELSE CHOOSE i \in at : \A j \in at : j <= i

\* the parameter set the stages after a closed PREAMBLE block must see
KwargsWanted ==
    IF src.pre.kind # "closed" THEN src.kwargs
    ELSE [k \in DOMAIN src.kwargs
                \cup {StmtKey(l) : l \in {src.pre.script[i] : i \in 1..Len(src.pre.script)}
                                         \cap STMTS} |->
            IF LastSet(src.pre.script, k) = 0 THEN src.kwargs[k]
            ELSE StmtVal(src.pre.script[LastSet(src.pre.script, k)])]

\* the items the stages after process_preamble must see
ItemsWanted ==
    IF src.pre.kind = "closed"
    THEN StripItems(<<Txt(src.lead \o <<"\n">>)>> \o src.items)
    ELSE <<Txt(src.lead \o RenderPreamble(src.pre))>> \o src.items

Scanned == IF pc = "placeholders" THEN html ELSE out.scanned

\* C4: the preamble runs before the conditionals and the placeholders: the
\* keys its script sets are defined for every IFDEF/IFNDEF of the body and
\* are substituted into the placeholders, the PREAMBLE block is gone after
\* process_preamble, and a body without one keeps its text and parameters.
C4_PreambleFirst ==
    /\ AfterPreamble /\ src.pre.kind = "closed" =>
          /\ kwargs = KwargsWanted
          /\ \A k \in 1..Len(html) : html[k] # "PREAMBLE"
    /\ AfterPreamble /\ src.pre.kind = "none" =>
          /\ kwargs = src.kwargs
          /\ (pc = "process_ifdefs" => html = BodyText(src))
    /\ pc \in {"placeholders", "process_html"} /\ src.items \in PreambleItems =>
          Scanned = Expected(ItemsWanted, KwargsWanted)
    /\ HandedOn /\ src.items \in PreambleItems =>
          html = SimSubst(Expected(ItemsWanted, KwargsWanted), KwargsWanted)

\* a key set only by the script selected the if-block of IFDEF(A) and filled
\* its placeholder
C4_Witness ==
    /\ HandedOn
    /\ src.pre.kind = "closed"
    /\ <<"A">> \notin DOMAIN src.kwargs
    /\ \E k \in 1..Len(src.pre.script) : src.pre.script[k] = SetA
    /\ src.items[1].ident = "IFDEF(A)"
    /\ src.items[1].a = <<Txt(PlaceholderA)>>
    /\ html = src.lead \o <<"\n", "p">>
    /\ src.lead # <<>>

\* C6: a block read that reaches the end of the text with a non-zero depth
\* aborts the expansion, whether the conditional resolver or the preamble
\* evaluator started it; only a missing identifier is recovered from, and it
\* leaves the document unchanged.
C6_UnterminatedIsFatal ==
    /\ out.caught = UnterminatedBlock => pc = "aborted"
    /\ AfterPreamble => out.caught \in {NoError, MissingIdentifier}
    /\ pc = "process_ifdefs" /\ out.caught = MissingIdentifier => html = BodyText(src)

---------------------------------------------------------------------------
(***************************************************************************)
(* The custom tag translator and the include tree.                         *)
(* A tag name is a sequence of letters: a capital, or a run of small       *)
(* letters.  A path is a sequence of segments, a segment a sequence of     *)
(* letters; ".html" is the last letter of a segment that has the extension. *)
(***************************************************************************)

CAPITALS == {"F", "E"}

\* c.lower()
Lower(c) == IF c = "F" THEN "f" ELSE IF c = "E" THEN "e" ELSE c

\* the for loop of html_file_substitution that splits the camel case name
RECURSIVE camel_parts(_, _, _)
camel_parts(processed, parts, part) ==
    IF processed = <<>> THEN (IF part # <<>> THEN Append(parts, part) ELSE parts)
    ELSE IF Head(processed) \in CAPITALS
    THEN camel_parts(Tail(processed),
                     IF part # <<>> THEN Append(parts, part) ELSE parts,
                     <<Lower(Head(processed))>>)
    ELSE camel_parts(Tail(processed), parts, Append(part, Head(processed)))

\* "_".join(parts), a single segment
RECURSIVE JoinSnake(_)
JoinSnake(parts) ==
    IF Len(parts) = 1 THEN parts[1]
    ELSE parts[1] \o <<"_">> \o JoinSnake(Tail(parts))

\* </Form> means <FormEnd>
Processed(tag) == IF tag[1] = "/" THEN Tail(tag) \o <<"E", "nd">> ELSE tag

\* [path, start, snake]
Candidates(tag) ==
    LET parts == camel_parts(Processed(tag), <<>>, <<>>)
    IN <<parts, Append(parts, <<"start">>), <<JoinSnake(parts)>>>>

\* file + ".html"
WithHtml(file) == [file EXCEPT ![Len(file)] = Append(@, ".html")]

FileNotFound == "FileNotFoundError"
IsADirectory == "IsADirectoryError"
NotADirectory == "NotADirectoryError"
MissingInclude == "Missing include file for tag: exit(os.EX_DATAERR)"

Kind(tree, p) == IF p \in DOMAIN tree THEN tree[p] ELSE "absent"

\* open(os.path.join(INCLUDE_DIR, file), "r"): NoError or the OSError raised.
\* The first component that is not a directory decides: a regular file there
\* gives ENOTDIR, nothing there gives ENOENT.
open(tree, p) ==
    LET bad == {n \in 1..(Len(p) - 1) : Kind(tree, SubSeq(p, 1, n)) # "dir"}
    IN IF bad # {}
       THEN (IF Kind(tree, SubSeq(p, 1, Min(bad))) = "file" THEN NotADirectory
             ELSE FileNotFound)
       ELSE IF Kind(tree, p) = "absent" THEN FileNotFound
       ELSE IF Kind(tree, p) = "dir" THEN IsADirectory
       ELSE NoError

\* include_file(file, False): the file that was read, or the error raised
include_file(tree, file) ==
    LET first == open(tree, file)
        second == open(tree, WithHtml(file))
    IN IF first = NoError THEN [err |-> NoError, read |-> file]
       ELSE IF first \in {FileNotFound, IsADirectory}
       THEN [err |-> second, read |-> IF second = NoError THEN WithHtml(file) ELSE <<>>]
       ELSE [err |-> first, read |-> <<>>]

\* for file in [path, start, snake]: try include_file ... else: exit
RECURSIVE try_files(_, _)
try_files(tree, files) ==
    IF files = <<>> THEN [err |-> MissingInclude, target |-> <<>>, read |-> <<>>]
    ELSE LET r == include_file(tree, Head(files))
         IN IF r.err = NoError
            THEN [err |-> NoError, target |-> Head(files), read |-> r.read]
            ELSE IF r.err \in {FileNotFound, IsADirectory}
            THEN try_files(tree, Tail(files))
            ELSE [err |-> r.err, target |-> <<>>, read |-> <<>>]

\* html_file_substitution up to the file whose text is expanded
html_file_substitution(tree, tag) == try_files(tree, Candidates(tag))

\* kwarg_file_subsitution up to the file whose text is expanded
kwarg_file_subsitution(tree, file) == include_file(tree, file)

---------------------------------------------------------------------------
(* SpecTag: html_file_substitution of every tag up to MaxTagLen letters on  *)
(* every include tree over the paths the tag can ask for.                   *)

MaxTagLen == 3

TagLetters == {"F", "orm"}

\* ([A-Z]|/[A-Z])[a-zA-Z0-9_]+
Tags ==
    LET names == {<<"F">> \o rest : rest \in TextsOver(TagLetters, MaxTagLen - 1) \ {<<>>}}
    IN names \cup {<<"/">> \o n : n \in names}

ProperPrefixes(p) == {SubSeq(p, 1, n) : n \in 1..(Len(p) - 1)}

TagPaths(tag) ==
    LET c == Candidates(tag)
    IN UNION {{c[i], WithHtml(c[i])} \cup ProperPrefixes(c[i]) : i \in 1..3}

\* a tree keeps directories above every entry
IsTree(tree) ==
    \A p \in DOMAIN tree : \A q \in ProperPrefixes(p) : Kind(tree, q) = "dir"

TreesFor(tag) ==
    {tree \in UNION {[paths -> {"file", "dir"}] : paths \in SUBSET TagPaths(tag)} :
        /\ IsTree(tree)
        /\ \A p \in DOMAIN tree : p[Len(p)][Len(p[Len(p)])] = ".html" => tree[p] = "file"}

InitTag ==
    /\ pc = "html_file_substitution"
    /\ src \in Tags
    /\ fs \in TreesFor(src)
    /\ html = <<>>
    /\ kwargs = EmptyKwargs
    /\ out = NoResult
    /\ cache = EmptyMap
    /\ requests = EmptyMap
    /\ constants = EmptyMap

HtmlFileSubstitution ==
    /\ pc = "html_file_substitution"
    /\ out' = html_file_substitution(fs, src)
    /\ pc' = "done"
    /\ UNCHANGED <<html, kwargs, src, env>>

NextTag == HtmlFileSubstitution

SpecTag == InitTag /\ [][NextTag]_vars

\* the target exists as an include file, with or without the extension
IsIncludeFile(tree, c) == Kind(tree, c) = "file" \/ Kind(tree, WithHtml(c)) = "file"

\* C5: the three targets are tried in order, the first that exists as an include
\* file (not a directory) is expanded like the parameterized include of that
\* target, and when none exists the run aborts with the missing-include error.
C5_FirstExistingTarget ==
    pc = "done" =>
        LET c == Candidates(src)
            found == {i \in 1..3 : IsIncludeFile(fs, c[i])}
        IN IF found = {} THEN out.err = MissingInclude
           ELSE /\ out.err = NoError
                /\ out.target = c[Min(found)]
                /\ out.read = kwarg_file_subsitution(fs, c[Min(found)]).read

---------------------------------------------------------------------------
(***************************************************************************)
(* The resource cache.  A url is the sequence of its parts between "/", a  *)
(* part and a file name are sequences of letters, a content is a sequence  *)
(* of letters ("" is <<>>).  cache is the cache directory: file name ->    *)
(* content.  src is the network: url -> response.                          *)
(***************************************************************************)

HTTP_OK == 200

ExSoftware == "Couldn't determine filename: exit(os.EX_SOFTWARE)"
FailedToRetrieve == "Failed to retrieve: exit(os.EX_DATAERR)"

None == [some |-> FALSE]
Some(content) == [some |-> TRUE, content |-> content]

\* if cached_content: None and "" are both false
Truthy(opt) == opt.some /\ opt.content # <<>>

\* url.split("/") is the model's url; the while loop over parts[-i]
RECURSIVE last_part(_, _)
last_part(parts, i) ==
    IF i > Len(parts) THEN [err |-> ExSoftware]
    ELSE IF parts[Len(parts) - i + 1] = <<>> THEN last_part(parts, i + 1)
    ELSE [err |-> NoError, filename |-> parts[Len(parts) - i + 1]]

filename_from_url(url) == last_part(url, 1)

\* f"{name}.svg"
IconFilename(name) == Append(name, ".svg")

\* URL_FORMAT.format(filename)
IconUrl(filename) ==
    <<<<"https:">>, <<>>, <<"icons.getbootstrap.com">>, <<"assets">>, <<"icons">>, filename>>

load_cached_file(dir, filename) ==
    IF filename \in DOMAIN dir THEN Some(dir[filename]) ELSE None

cache_file(dir, filename, content) ==
    [f \in DOMAIN dir \cup {filename} |-> IF f = filename THEN content ELSE dir[f]]

Bump(counts, key) ==
    [k \in DOMAIN counts \cup {key} |->
        IF k = key THEN (IF k \in DOMAIN counts THEN counts[k] + 1 ELSE 1)
        ELSE counts[k]]

\* the body shared by load_url and bootstrap_icon: the cached content if it is
\* true, else download_resource and cache_file.  The result is the state after.
load_through_cache(filename, url) ==
    LET cached == load_cached_file(cache, filename)
        resp == src[url]
        asked == [requests EXCEPT !.calls = @ + 1]
        fetched == [asked EXCEPT !.fetched = Bump(@, filename)]
    IN IF Truthy(cached)
       THEN [pc |-> "ready", cache |-> cache, requests |-> asked,
             out |-> [err |-> NoError, filename |-> filename, content |-> cached.content]]
       ELSE IF resp.status # HTTP_OK
       THEN [pc |-> "exited", cache |-> cache, requests |-> fetched,
             out |-> [err |-> FailedToRetrieve, filename |-> filename, content |-> <<>>]]
       ELSE [pc |-> "ready", cache |-> cache_file(cache, filename, resp.data),
             requests |-> [fetched EXCEPT !.written = Bump(@, filename)],
             out |-> [err |-> NoError, filename |-> filename, content |-> resp.data]]

load_url(url) ==
    LET name == filename_from_url(url)
    IN IF name.err # NoError
       THEN [pc |-> "exited", cache |-> cache,
             requests |-> [requests EXCEPT !.calls = @ + 1],
             out |-> [err |-> name.err, filename |-> <<>>, content |-> <<>>]]
       ELSE load_through_cache(name.filename, url)

bootstrap_icon(name) ==
    load_through_cache(IconFilename(name), IconUrl(IconFilename(name)))

---------------------------------------------------------------------------
(* SpecCache: up to MaxCalls calls of load_url and bootstrap_icon in one    *)
(* run, on every network that answers each url with a fixed response.       *)

MaxCalls == 3

XSvg == <<"x", ".svg">>

Urls ==
    {<<<<"https:">>, <<>>, <<"a">>, XSvg>>,
     <<<<"https:">>, <<>>, <<"b">>, XSvg, <<>>>>,
     <<<<"https:">>, <<>>, <<"a">>, <<"y", ".css">>>>,
     <<<<>>, <<>>>>}

IconNames == {<<"x">>}

Responses ==
    {[status |-> HTTP_OK, data |-> <<>>],
     [status |-> HTTP_OK, data |-> <<"svg">>],
     [status |-> 404, data |-> <<>>]}

Resources == Urls \cup {IconUrl(IconFilename(n)) : n \in IconNames}

InitCache ==
    /\ pc = "ready"
    /\ src \in [Resources -> Responses]
    /\ cache = EmptyMap
    /\ requests = [calls |-> 0, fetched |-> EmptyMap, written |-> EmptyMap]
    /\ out = NoResult
    /\ html = <<>>
    /\ kwargs = EmptyKwargs
    /\ fs = EmptyMap
    /\ constants = EmptyMap

Return(after) ==
    /\ pc' = after.pc
    /\ cache' = after.cache
    /\ requests' = after.requests
    /\ out' = after.out
    /\ UNCHANGED <<html, kwargs, src, fs, constants>>

LoadUrl ==
    /\ pc = "ready"
    /\ requests.calls < MaxCalls
    /\ \E url \in Urls : Return(load_url(url))

BootstrapIcon ==
    /\ pc = "ready"
    /\ requests.calls < MaxCalls
    /\ \E name \in IconNames : Return(bootstrap_icon(name))

NextCache == LoadUrl \/ BootstrapIcon

SpecCache == InitCache /\ [][NextCache]_vars

\* C7: the cache is write-once: whatever the stored content is, each file name
\* is fetched and written at most once, and a request for a file name that has
\* an entry is answered with the stored content.
C7_WriteOnce ==
    /\ \A f \in DOMAIN requests.fetched : requests.fetched[f] <= 1
    /\ \A f \in DOMAIN requests.written : requests.written[f] <= 1
    /\ (pc = "ready" /\ requests.calls > 0) => out.content = cache[out.filename]

---------------------------------------------------------------------------
(***************************************************************************)
(* The constant table.  constants is the default argument of constant(),   *)
(* one dictionary for the whole run; src is the table in constants.json.   *)
(***************************************************************************)

MaxDepth == 3

MissingConstant == "Missing constant: exit(os.EX_NOINPUT)"
RecursionError == "RecursionError"

\* a value of the table is a JSON string or a JSON integer, kept with its digits
JsonStr(text) == [type |-> "str", text |-> text]
JsonInt(digits) == [type |-> "int", text |-> digits]

\* str(constants[name])
str(v) == v.text

\* constants.update(json.load(f))
update(table, file) ==
    [k \in DOMAIN table \cup DOMAIN file |-> IF k \in DOMAIN file THEN file[k] ELSE table[k]]

\* constant(name) from call depth `depth` on: the table in memory, the number of
\* reads of the side file, and the value returned or the error that ends the run.
\* The interpreter ends a recursion deeper than MaxDepth with RecursionError.
RECURSIVE constant_call(_, _, _, _, _)
constant_call(name, table, file, reads, depth) ==
    IF table # EmptyMap
    THEN (IF strip(name) \in DOMAIN table
          THEN [err |-> NoError, value |-> str(table[strip(name)]),
                constants |-> table, reads |-> reads]
          ELSE [err |-> MissingConstant, value |-> "", constants |-> table, reads |-> reads])
    ELSE IF depth >= MaxDepth
    THEN [err |-> RecursionError, value |-> "", constants |-> table, reads |-> reads]
    ELSE constant_call(name, update(table, file), file, reads + 1, depth + 1)

constant(name) == constant_call(name, constants, src, requests.reads, 0)

---------------------------------------------------------------------------
(* SpecConst: up to MaxLookups calls of constant() in one run, for every    *)
(* table the side file can hold over ConstNames.                            *)

MaxLookups == 3

ConstNames == {<<"A">>, <<"B">>, <<"C">>}

ConstValues == {JsonStr("p"), JsonInt("1")}

LookupNames == ConstNames \cup {<<" ", "A">>}

ConstTables == UNION {[names -> ConstValues] : names \in SUBSET ConstNames}

InitConst ==
    /\ pc = "ready"
    /\ src \in ConstTables
    /\ constants = EmptyMap
    /\ requests = [calls |-> 0, reads |-> 0]
    /\ out = NoResult
    /\ html = <<>>
    /\ kwargs = EmptyKwargs
    /\ fs = EmptyMap
    /\ cache = EmptyMap

Constant ==
    /\ pc = "ready"
    /\ requests.calls < MaxLookups
    /\ \E name \in LookupNames :
        LET r == constant(name)
        IN /\ constants' = r.constants
           /\ requests' = [calls |-> requests.calls + 1, reads |-> r.reads]
           /\ out' = [err |-> r.err, value |-> r.value, name |-> name]
           /\ pc' = IF r.err = NoError THEN "ready" ELSE "exited"
    /\ UNCHANGED <<html, kwargs, src, fs, cache>>

NextConst == Constant

SpecConst == InitConst /\ [][NextConst]_vars

\* C8: the side file is read at most once in a run, a name of the table gets its
\* value as text, and a name that is not in the table ends the run with the
\* missing-constant error, for every table content, the empty table too.
C8_ReadOnceMissFatal ==
    /\ requests.reads <= 1
    /\ requests.calls > 0 =>
        IF strip(out.name) \in DOMAIN src
        THEN out.err = NoError /\ out.value = str(src[strip(out.name)])
        ELSE out.err = MissingConstant /\ pc = "exited"

---------------------------------------------------------------------------
(***************************************************************************)
(* The macro grammar: SUBSTITUTION_REGEX on the lexeme sequences.  A word  *)
(* lexeme stands for a run of characters of one class.  The texts have no  *)
(* "," and no quoted braces, so an argument list holds at most one k=v     *)
(* argument.                                                               *)
(***************************************************************************)

\* KWARG_ARG_REGEX: a k=v argument, one lexeme
ArgA == "a='v'"
KWARG_ARGS == {ArgA}

\* k.upper() and remove_quotes(v) of an argument
ArgKey(arg) == <<"A">>
ArgVal(arg) == <<"v">>

\* the lexemes with a character outside FULL_CHARACTERS
NotFC == {"{", "}", " ", "\n", "(", ")", "<", ">", ""} \cup STMTS \cup IDENTS \cup KWARG_ARGS

\* the lexemes of FULL_CHARACTERS with a character outside IDENTIFIER_CHARACTERS
FCOnly == {"/", "-", ".html", ".svg", "https:"}

FC(l) == l \notin NotFC
IC(l) == l \notin NotFC \cup FCOnly

\* s[k], "" past the ends
At(s, k) == IF k \in 1..Len(s) THEN s[k] ELSE ""

\* the position after the longest run of FULL_CHARACTERS that starts at i
RunFC(s, i) ==
    LET stop == {k \in i..Len(s) : ~FC(s[k])}
    IN IF stop = {} THEN Len(s) + 1 ELSE Min(stop)

\* the position after the longest run of IDENTIFIER_CHARACTERS that starts at i
RunIC(s, i) ==
    LET stop == {k \in i..Len(s) : ~IC(s[k])}
    IN IF stop = {} THEN Len(s) + 1 ELSE Min(stop)

NoMatch == [end |-> 0, kind |-> "", name |-> <<>>, args |-> <<>>]

\* \s*}} at c: the position after the match, or 0
CloseAfter(s, c) == IF CloseAt(s, SkipWs(s, c)) THEN SkipWs(s, c) + 2 ELSE 0

\* KWARG_FILE_REGEX at i, up to the closing braces
KwargFileAt(s, i) ==
    LET j == RunFC(s, i)
        a == SkipWs(s, j + 1)
        one == At(s, a) \in KWARG_ARGS /\ At(s, SkipWs(s, a + 1)) = ")"
        r == IF one THEN SkipWs(s, a + 1) ELSE a
    IN IF j > i /\ At(s, j) = "(" /\ At(s, r) = ")" /\ CloseAfter(s, r + 1) # 0
       THEN [end |-> CloseAfter(s, r + 1), kind |-> "kwarg_file",
             name |-> Slice(s, i, j - 1), args |-> Slice(s, a, r - 1)]
       ELSE NoMatch

\* FUNCTION_REGEX at i, up to the closing braces
FunctionAt(s, i) ==
    LET j == RunIC(s, i)
        r == RunFC(s, j + 1)
    IN IF j > i /\ At(s, j) = "(" /\ At(s, r) = ")" /\ CloseAfter(s, r + 1) # 0
       THEN [end |-> CloseAfter(s, r + 1), kind |-> "func",
             name |-> Slice(s, i, j - 1), args |-> Slice(s, j + 1, r - 1)]
       ELSE NoMatch

\* INCLUDE_REGEX at i, up to the closing braces
IncludeAt(s, i) ==
    LET j == RunFC(s, i)
    IN IF j > i /\ CloseAfter(s, j) # 0
       THEN [end |-> CloseAfter(s, j), kind |-> "file",
             name |-> Slice(s, i, j - 1), args |-> <<>>]
       ELSE NoMatch

\* FALLBACK_REGEX at i, up to the closing braces: [^{}]+ takes the whitespace
\* before }} too; p is the position of {{, whose \s* gives back one
\* whitespace when nothing else is between the braces
FallbackAt(s, p, i) ==
    LET braces == {k \in i..Len(s) : s[k] \in {"{", "}"}}
        b == IF braces = {} THEN Len(s) + 1 ELSE Min(braces)
        from == IF b = i /\ i > p + 2 THEN i - 1 ELSE i
    IN IF b > from /\ CloseAt(s, b)
       THEN [end |-> b + 2, kind |-> "raw", name |-> Slice(s, from, b - 1), args |-> <<>>]
       ELSE NoMatch

\* HTML_FILE_REGEX at p
HtmlFileAt(s, p) ==
    LET i == SkipWs(s, p + 1)
        c == IF At(s, i) = "/" THEN i + 1 ELSE i
        j == RunIC(s, c + 1)
        a == SkipWs(s, j)
        one == At(s, a) \in KWARG_ARGS
               /\ (SkipWs(s, a + 1) > a + 1 \/ At(s, SkipWs(s, a + 1)) = ">")
        r == IF one THEN SkipWs(s, a + 1) ELSE a
        e == IF At(s, r) = "/" THEN r + 1 ELSE r
    IN IF At(s, p) = "<" /\ At(s, c) \in CAPITALS /\ j > c + 1 /\ At(s, e) = ">"
       THEN [end |-> e + 1, kind |-> "html_file",
             name |-> Slice(s, i, j - 1), args |-> Slice(s, a, r - 1)]
       ELSE NoMatch

\* SUBSTITUTION_REGEX at p: the first alternative that matches
SubstitutionAt(s, p) ==
    LET i == SkipWs(s, p + 2)
    IN IF OpenAt(s, p)
       THEN (IF KwargFileAt(s, i).end # 0 THEN KwargFileAt(s, i)
             ELSE IF FunctionAt(s, i).end # 0 THEN FunctionAt(s, i)
             ELSE IF IncludeAt(s, i).end # 0 THEN IncludeAt(s, i)
             ELSE FallbackAt(s, p, i))
       ELSE HtmlFileAt(s, p)

\* re.search(regex, html): the leftmost match with its start and text, or NoMatch
search(s) ==
    LET hits == {p \in 1..Len(s) : SubstitutionAt(s, p).end # 0}
        m == SubstitutionAt(s, Min(hits))
    IN IF hits = {} THEN [start |-> 0, text |-> <<>>, m |-> NoMatch]
       ELSE [start |-> Min(hits), text |-> Slice(s, Min(hits), m.end - 1), m |-> m]

---------------------------------------------------------------------------
(***************************************************************************)
(* The expander.  st is what a call can change: st.ids, the number of      *)
(* unique_string() values handed out, and st.constants, the constant table *)
(* in memory.  Every operator gives [err, html, st, by]: the error that    *)
(* leaves it or NoError, the text it returns, and the operation that made  *)
(* the text.                                                               *)
(***************************************************************************)

MissingFunction == "Missing function: exit(os.EX_NOINPUT)"
TypeError == "TypeError"

\* SystemExit, which function_substitution catches
IsSystemExit(e) ==
    e \in {ExitDataErr, MissingConstant, MissingInclude, MissingFunction,
           ExSoftware, FailedToRetrieve}

\* (ValueError, KeyError), which kwarg_substitution catches
IsValueError(e) == e \in {UnterminatedBlock, MissingIdentifier}

REGISTRY ==
    {<<"bootstrap_icon">>, <<"stylesheet">>, <<"javascript">>, <<"constant">>,
     <<"unique_string">>}

\* unique_string(): the n-th value of the run; the values differ
IdNames == <<"id1", "id2", "id3", "id4", "id5", "id6">>
unique_string(n) == IdNames[n]

\* os.path.join(INCLUDE_DIR, file): the segments of file between its "/"
RECURSIVE PathOf(_)
PathOf(file) ==
    LET slash == {k \in 1..Len(file) : file[k] = "/"}
    IN IF slash = {} THEN <<file>>
       ELSE <<Slice(file, 1, Min(slash) - 1)>>
            \o PathOf(Slice(file, Min(slash) + 1, Len(file)))

\* the text of the include files of the runs, by the name of the file; they
\* hold no comments, so strip_comments leaves them as they are
EchoText == <<"{", "{", "A", "}", "}", "x">>
FieldText ==
    <<"PREAMBLE", "{", "{", "\n", SetID, "\n", "}", "}", "\n", "{", "{", "A", "}", "}">>
FileText(path) ==
    LET name == path[Len(path)][1]
    IN IF name = "echo" THEN EchoText
       ELSE IF name = "field" THEN FieldText
       ELSE IF name = "f" THEN <<"y">>
       ELSE <<"x">>

\* constants.json of the runs
ConstantsJson == [k \in {<<"A">>} |-> JsonStr("p")]

\* the kwargs that kwarg_substitution builds from the argument text
ArgsKwargs(args) ==
    [k \in {ArgKey(args[i]) : i \in {j \in 1..Len(args) : args[j] \in KWARG_ARGS}} |->
        ArgVal(ArgA)]

\* the values of unique_string() calls in kw become the n-th value
Numbered(kw, n) ==
    [k \in DOMAIN kw |-> IF kw[k] = <<FreshId>> THEN <<unique_string(n)>> ELSE kw[k]]

Raise(e, st) == [err |-> e, html |-> <<>>, st |-> st, by |-> ""]

\* the run has handed out one more unique_string() value when kw holds one
Issued(kw, st) ==
    IF \E k \in DOMAIN kw : kw[k] = <<FreshId>> THEN [st EXCEPT !.ids = @ + 1] ELSE st

By(r, by) == [r EXCEPT !.by = by]

\* the for loop of process_kwarg_html; ifd is what process_ifdefs returned
process_kwarg_html_loop(ifd, kw, st) ==
    IF ifd.err # NoError THEN Raise(ifd.err, st)
    ELSE [err |-> NoError, html |-> replace_kwargs(ifd.html, kwarg_finditer(ifd.html, 1), kw),
          st |-> st, by |-> ""]

\* process_kwarg_html from process_ifdefs on; pre is what process_preamble returned
process_kwarg_html_ifdefs(pre, kw, st) ==
    IF pre.err # NoError THEN Raise(pre.err, st)
    ELSE process_kwarg_html_loop(process_ifdefs(pre.html, kw), kw, st)

process_kwarg_html_ids(pre, st) ==
    process_kwarg_html_ifdefs(pre, Numbered(pre.kwargs, st.ids + 1), Issued(pre.kwargs, st))

\* process_kwarg_html up to its last line: the text it hands to process_html
process_kwarg_html(text, kw, st) ==
    process_kwarg_html_ids(process_preamble(text, kw), st)

\* function_from_name(functions, func)(*args) for a name of the registry.  The
\* resource functions return the element they build as one lexeme.
constant_result(c, st) ==
    [err |-> c.err, html |-> IF c.value = "" THEN <<>> ELSE <<c.value>>,
     st |-> [st EXCEPT !.constants = c.constants], by |-> "constant"]

call(func, args, st) ==
    IF func = <<"unique_string">>
    THEN (IF args # <<>> THEN By(Raise(TypeError, st), func[1])
          ELSE [err |-> NoError, html |-> <<unique_string(st.ids + 1)>>,
                st |-> [st EXCEPT !.ids = @ + 1], by |-> func[1]])
    ELSE IF args = <<>> THEN By(Raise(TypeError, st), func[1])
    ELSE IF func = <<"constant">>
    THEN constant_result(constant_call(args[1], st.constants, ConstantsJson, 0, 0), st)
    ELSE [err |-> NoError,
          html |-> IF func = <<"bootstrap_icon">> THEN <<"<svg>">>
                   ELSE IF func = <<"stylesheet">> THEN <<"<style>">>
                   ELSE <<"<script>">>,
          st |-> st, by |-> func[1]]

\* the file a match opens: html_file_substitution tries its three targets,
\* kwarg_file_subsitution and include_file open the file of that name
opened(m) ==
    IF m.kind = "html_file" THEN html_file_substitution(fs, m.name)
    ELSE IF m.kind = "file" THEN include_file(fs, PathOf(m.name))
    ELSE kwarg_file_subsitution(fs, PathOf(m.name))

\* the text a match hands to process_html: the text of the file for
\* include_file(file), what process_kwarg_html makes of it for the others
handed(m, f, st) ==
    IF f.err # NoError THEN Raise(f.err, st)
    ELSE IF m.kind = "file"
    THEN [err |-> NoError, html |-> FileText(f.read), st |-> st, by |-> ""]
    ELSE process_kwarg_html(FileText(f.read), ArgsKwargs(m.args), st)

\* the except clauses a result r passes on its way back to process_html:
\* (ValueError, KeyError) in kwarg_substitution, SystemExit in function_substitution
kwarg_substitution(m, r) ==
    IF m.kind # "file" /\ IsValueError(r.err) THEN Raise(ExitDataErr, r.st) ELSE r

function_substitution(m, r) ==
    IF m.kind = "func" /\ IsSystemExit(r.err) THEN Raise(MissingFunction, r.st) ELSE r

Resolver(m) ==
    IF m.kind = "html_file" THEN "html_file_substitution"
    ELSE IF m.kind = "file" THEN "include_file"
    ELSE "kwarg_file_subsitution"

RECURSIVE process_html(_, _)

\* the process_html call that ends process_kwarg_html and include_file
nested(h) == IF h.err # NoError THEN h ELSE process_html(h.html, h.st)

\* the if/elif chain of process_html on the groups of a match
substitution(m, st) ==
    IF m.kind = "raw" THEN [err |-> NoError, html |-> m.name, st |-> st, by |-> "raw"]
    ELSE IF m.kind = "func" /\ m.name \in REGISTRY
    THEN call(m.name, IF m.args = <<>> THEN <<>> ELSE <<strip(m.args)>>, st)
    ELSE By(function_substitution(m, kwarg_substitution(m, nested(handed(m, opened(m), st)))),
            Resolver(m))

\* html.replace(m.group(0), repl)
replace(text, m, repl) == ReplaceAll(text, m.text, repl)

\* the end of an iteration of the while loop; r is what the substitution gave
process_html_replace(text, m, r) ==
    IF r.err # NoError THEN r
    ELSE process_html(replace(text, m, r.html), r.st)

\* the while loop of process_html from its test on; m is the match
process_html_while(text, m, st) ==
    IF m.start = 0 THEN [err |-> NoError, html |-> text, st |-> st, by |-> "process_html"]
    ELSE process_html_replace(text, m, substitution(m.m, st))

process_html(text, st) == process_html_while(text, search(text), st)

---------------------------------------------------------------------------
(* SpecHtml: process_page on every document of up to MaxPieces pieces, one  *)
(* action per iteration of the while loop of process_html.                  *)

MaxPieces == 2

Macro(inner) == <<"{", "{", " ">> \o inner \o <<" ", "}", "}">>

Call(name, arg) == Macro(<<name, "(">> \o arg \o <<")">>)

Pieces ==
    {<<"-">>,
     Macro(<<"x", " ", "y">>),
     Macro(Macro(<<"x", " ", "y">>)),
     Macro(<<"plain">>),
     Call("field", <<>>),
     Call("echo", <<ArgA>>),
     Call("plain", <<"A">>),
     Call("constant", <<"A">>),
     Call("constant", <<"B">>),
     Call("unique_string", <<>>),
     Call("unique_string", <<"A">>),
     Call("bootstrap_icon", <<"x">>),
     Call("nofunc", <<"A">>),
     <<"<", "F", "orm", ">">>}

RECURSIVE Documents(_)
Documents(n) ==
    IF n = 0 THEN {<<>>}
    ELSE LET shorter == Documents(n - 1)
         IN shorter \cup {d \o piece : d \in shorter, piece \in Pieces}

IncludeFiles(names) == [p \in {<<Append(n, ".html")>> : n \in names} |-> "file"]

HtmlTrees ==
    {EmptyMap,
     IncludeFiles({<<"plain">>, <<"field">>, <<"echo">>, <<"f", "orm">>}),
     IncludeFiles({<<"plain">>, <<"field">>, <<"echo">>, <<"unique_string">>, <<"nofunc">>}),
     [p \in {<<<<"plain">>>>, <<<<"f">>>>} |-> "file"]}

InitHtml ==
    /\ pc = "process_html"
    /\ src \in Documents(MaxPieces)
    /\ html = src
    /\ fs \in HtmlTrees
    /\ constants = EmptyMap
    /\ requests = [ids |-> 0, steps |-> 0]
    /\ out = NoResult
    /\ kwargs = EmptyKwargs
    /\ cache = EmptyMap

\* html.replace of an iteration; r is what the substitution gave
ProcessHtmlReplace(m, r) ==
    /\ html' = IF r.err = NoError THEN replace(html, m, r.html) ELSE html
    /\ pc' = IF r.err = NoError THEN "process_html" ELSE "aborted"
    /\ requests' = [ids |-> r.st.ids, steps |-> requests.steps + 1]
    /\ constants' = r.st.constants
    /\ out' = [err |-> r.err, before |-> html, start |-> m.start, text |-> m.text,
               repl |-> r.html, by |-> r.by]

\* the while test and the if/elif chain of an iteration; m is the match
ProcessHtmlWhile(m) ==
    /\ m.start # 0
    /\ ProcessHtmlReplace(m, substitution(m.m, [ids |-> requests.ids, constants |-> constants]))

\* one iteration: the substitution of the leftmost match and html.replace
ProcessHtmlStep ==
    /\ pc = "process_html"
    /\ ProcessHtmlWhile(search(html))
    /\ UNCHANGED <<kwargs, src, fs, cache>>

\* no match is left: process_page warns when "{{" is still in the text
ProcessPage ==
    /\ pc = "process_html"
    /\ search(html).start = 0
    /\ pc' = "done"
    /\ out' = IF requests.steps = 0
              THEN [err |-> NoError, before |-> html, start |-> 0, text |-> <<>>,
                    repl |-> <<>>, by |-> "process_html"]
              ELSE out
    /\ UNCHANGED <<html, kwargs, src, fs, cache, requests, constants>>

NextHtml == ProcessHtmlStep \/ ProcessPage

SpecHtml == InitHtml /\ [][NextHtml]_vars

\* the step that was taken last resolved a macro
Stepped == pc # "aborted" /\ out.err = NoError /\ out.start # 0

\* C9: a step replaces the one occurrence it matched, the leftmost macro of the
\* document, by its resolved text and leaves every lexeme outside the matched
\* span as it was.
C9_OneOccurrencePerStep ==
    Stepped =>
        html = Slice(out.before, 1, out.start - 1) \o out.repl
               \o Slice(out.before, out.start + Len(out.text), Len(out.before))

\* the name and the argument of a macro text of the form {{ name(args) }}
CallInner(text) == strip(Slice(text, 3, Len(text) - 2))
IsCall(text) ==
    LET inner == CallInner(text)
        j == RunIC(inner, 1)
    IN /\ Len(text) >= 4 /\ OpenAt(text, 1)
       /\ j > 1 /\ At(inner, j) = "("
       /\ RunFC(inner, j + 1) = Len(inner) /\ At(inner, Len(inner)) = ")"
CallName(text) == Slice(CallInner(text), 1, RunIC(CallInner(text), 1) - 1)

\* C10: a macro of the function-call form whose name is in the registry is
\* resolved by that registry operation, with an empty argument list too; any
\* other name is expanded as the parameterized include of that name, and when
\* that include does not exist the run aborts with the missing-function error.
C10_RegistryDispatch ==
    (pc \in {"process_html", "aborted"} /\ requests.steps > 0 /\ IsCall(out.text)) =>
        IF CallName(out.text) \in REGISTRY THEN out.by = CallName(out.text)[1]
        ELSE IF IsIncludeFile(fs, PathOf(CallName(out.text)))
        THEN out.by = "kwarg_file_subsitution"
        ELSE out.err = MissingFunction

---------------------------------------------------------------------------
(***************************************************************************)
(* Page workers that share the cache directory.  main() runs process_page  *)
(* for the pages one after the other, or in a multiprocessing.Pool when    *)
(* MULTIPROCESSING is set; a worker is one process_page that reaches       *)
(* load_url or bootstrap_icon.  A worker takes one step per system call:   *)
(* os.path.isdir, mkdir, os.path.isfile, open, read, a write of one chunk  *)
(* of the text, close.  cache is the directory: whether it exists, its     *)
(* .gitignore and its files, each the sequence of chunks it holds.         *)
(***************************************************************************)

NumWorkers == 2

Workers == 1..NumWorkers

\* the chunk of a file position that was never written
Hole == "\\0"

NoFile == [exists |-> FALSE, data |-> <<>>]
File(data) == [exists |-> TRUE, data |-> data]

\* f.write of one chunk at position pos of a file that holds data
WriteAt(data, pos, chunk) ==
    [k \in 1..(IF pos > Len(data) THEN pos ELSE Len(data)) |->
        IF k = pos THEN chunk ELSE IF k <= Len(data) THEN data[k] ELSE Hole]

\* the file of the cache directory with that name
CacheEntry(filename) ==
    IF filename \in DOMAIN cache.files THEN File(cache.files[filename]) ELSE NoFile

\* the worker goes on at label, its locals changed as given
Goto(w, label) == pc' = [pc EXCEPT ![w] = label]

\* a worker may run: always in a pool, after the pages before it otherwise
Scheduled(w) == src.MULTIPROCESSING \/ \A v \in 1..(w - 1) : pc[v] = "done"

Runs(w, label) == pc[w] = label /\ Scheduled(w)

\* the locals of worker w change as given
Local(w, locals) == out' = [out EXCEPT ![w] = locals]

\* where ensure_cache_dir returns to
AfterEnsure(w) == IF out[w].caller = "load_cached_file" THEN "isfile" ELSE "open"

---------------------------------------------------------------------------
(* SpecWorkers: NumWorkers workers, each with one call of load_url or       *)
(* bootstrap_icon, on a cache directory without entries; the server gives   *)
(* every url the same response.                                             *)

WorkerJobs ==
    {[fn |-> "load_url", url |-> u, name |-> <<>>] : u \in Urls}
    \cup {[fn |-> "bootstrap_icon", url |-> <<>>, name |-> n] : n \in IconNames}

WorkerResponses ==
    Responses \cup {[status |-> HTTP_OK, data |-> <<"<sv", "g>">>]}

CacheDirs ==
    {[dir |-> FALSE, gitignore |-> NoFile, files |-> EmptyMap],
     [dir |-> TRUE, gitignore |-> File(<<"*">>), files |-> EmptyMap]}

Idle == [filename |-> <<>>, url |-> <<>>, caller |-> "", content |-> <<>>, offset |-> 0,
         ret |-> <<>>, err |-> NoError]

InitWorkers ==
    /\ src \in [MULTIPROCESSING : BOOLEAN, response : WorkerResponses,
                job : [Workers -> WorkerJobs]]
    /\ cache \in CacheDirs
    /\ pc = [w \in Workers |-> "start"]
    /\ out = [w \in Workers |-> Idle]
    /\ requests = [w \in Workers |-> 0]
    /\ html = <<>>
    /\ kwargs = EmptyKwargs
    /\ fs = EmptyMap
    /\ constants = EmptyMap

WorkerFrame == UNCHANGED <<html, kwargs, src, fs, constants>>

\* filename = filename_from_url(url), filename = f"{name}.svg"; then
\* load_cached_file calls ensure_cache_dir
Start(w) ==
    /\ Runs(w, "start")
    /\ LET job == src.job[w]
           name == filename_from_url(job.url)
       IN IF job.fn = "bootstrap_icon"
          THEN /\ Local(w, [out[w] EXCEPT !.filename = IconFilename(job.name),
                                          !.url = IconUrl(IconFilename(job.name)),
                                          !.caller = "load_cached_file"])
               /\ Goto(w, "isdir")
          ELSE IF name.err # NoError
          THEN Local(w, [out[w] EXCEPT !.err = name.err]) /\ Goto(w, "exited")
          ELSE /\ Local(w, [out[w] EXCEPT !.filename = name.filename, !.url = job.url,
                                          !.caller = "load_cached_file"])
               /\ Goto(w, "isdir")
    /\ UNCHANGED <<cache, requests>>
    /\ WorkerFrame

\* if not os.path.isdir(INCLUDE_CACHE_DIR)
IsDir(w) ==
    /\ Runs(w, "isdir")
    /\ Goto(w, IF cache.dir THEN "isfile_gitignore" ELSE "mkdir")
    /\ UNCHANGED <<cache, requests, out>>
    /\ WorkerFrame

\* pathlib.Path(INCLUDE_CACHE_DIR).mkdir(parents=True, exist_ok=True)
Mkdir(w) ==
    /\ Runs(w, "mkdir")
    /\ cache' = [cache EXCEPT !.dir = TRUE]
    /\ Goto(w, "isfile_gitignore")
    /\ UNCHANGED <<requests, out>>
    /\ WorkerFrame

\* if not os.path.isfile(gitignore_path)
IsFileGitignore(w) ==
    /\ Runs(w, "isfile_gitignore")
    /\ Goto(w, IF cache.gitignore.exists THEN AfterEnsure(w) ELSE "open_gitignore")
    /\ UNCHANGED <<cache, requests, out>>
    /\ WorkerFrame

\* open(gitignore_path, "w") creates the file or empties it
OpenGitignore(w) ==
    /\ Runs(w, "open_gitignore")
    /\ cache' = [cache EXCEPT !.gitignore = File(<<>>)]
    /\ Goto(w, "write_gitignore")
    /\ UNCHANGED <<requests, out>>
    /\ WorkerFrame

\* f.write("*") and the end of the with block
WriteGitignore(w) ==
    /\ Runs(w, "write_gitignore")
    /\ cache' = [cache EXCEPT !.gitignore = File(WriteAt(@.data, 1, "*"))]
    /\ Goto(w, AfterEnsure(w))
    /\ UNCHANGED <<requests, out>>
    /\ WorkerFrame

\* load_cached_file: if os.path.isfile(cached_file)
IsFile(w) ==
    /\ Runs(w, "isfile")
    /\ Goto(w, IF CacheEntry(out[w].filename).exists THEN "read" ELSE "download")
    /\ UNCHANGED <<cache, requests, out>>
    /\ WorkerFrame

\* load_cached_file: open and f.read(), then `if cached_content:` of the caller
Read(w) ==
    /\ Runs(w, "read")
    /\ LET cached == load_cached_file(cache.files, out[w].filename)
       IN IF Truthy(cached)
          THEN Local(w, [out[w] EXCEPT !.ret = cached.content]) /\ Goto(w, "done")
          ELSE UNCHANGED out /\ Goto(w, "download")
    /\ UNCHANGED <<cache, requests>>
    /\ WorkerFrame

\* download_resource(url); then cache_file calls ensure_cache_dir
Download(w) ==
    /\ Runs(w, "download")
    /\ requests' = [requests EXCEPT ![w] = @ + 1]
    /\ IF src.response.status # HTTP_OK
       THEN Local(w, [out[w] EXCEPT !.err = FailedToRetrieve]) /\ Goto(w, "exited")
       ELSE /\ Local(w, [out[w] EXCEPT !.content = src.response.data,
                                       !.caller = "cache_file"])
            /\ Goto(w, "isdir")
    /\ UNCHANGED cache
    /\ WorkerFrame

\* cache_file: open(..., "w") creates the file or empties it
Open(w) ==
    /\ Runs(w, "open")
    /\ cache' = [cache EXCEPT !.files = cache_file(@, out[w].filename, <<>>)]
    /\ Local(w, [out[w] EXCEPT !.offset = 1])
    /\ Goto(w, "write")
    /\ UNCHANGED requests
    /\ WorkerFrame

\* cache_file: f.write(content), one chunk reaches the file
Write(w) ==
    /\ Runs(w, "write")
    /\ out[w].offset <= Len(out[w].content)
    /\ cache' = [cache EXCEPT !.files =
                    cache_file(@, out[w].filename,
                               WriteAt(@[out[w].filename], out[w].offset,
                                       out[w].content[out[w].offset]))]
    /\ Local(w, [out[w] EXCEPT !.offset = @ + 1])
    /\ UNCHANGED <<pc, requests>>
    /\ WorkerFrame

\* cache_file: the end of the with block; the caller returns the content
Close(w) ==
    /\ Runs(w, "write")
    /\ out[w].offset > Len(out[w].content)
    /\ Local(w, [out[w] EXCEPT !.ret = out[w].content])
    /\ Goto(w, "done")
    /\ UNCHANGED <<cache, requests>>
    /\ WorkerFrame

NextWorkers ==
    \E w \in Workers :
        \/ Start(w)
        \/ IsDir(w)
        \/ Mkdir(w)
        \/ IsFileGitignore(w)
        \/ OpenGitignore(w)
        \/ WriteGitignore(w)
        \/ IsFile(w)
        \/ Read(w)
        \/ Download(w)
        \/ Open(w)
        \/ Write(w)
        \/ Close(w)

SpecWorkers == InitWorkers /\ [][NextWorkers]_vars

\* C11: every worker that returns, returns the complete content the server
\* gave, never what a file held while another worker was writing it; when all
\* workers have returned, the entry holds the complete content, the cache
\* directory exists and its .gitignore holds "*".
C11_ToleratesParallelWorkers ==
    /\ \A w \in Workers : pc[w] = "done" => out[w].ret = src.response.data
    /\ (\A w \in Workers : pc[w] = "done") =>
        /\ \A w \in Workers : CacheEntry(out[w].filename) = File(src.response.data)
        /\ cache.dir
        /\ cache.gitignore = File(<<"*">>)

====
